---- MODULE Spec2Model ----
(***************************************************************************)
(* Model of package warc (src/warc.go): the WARC record Reader, with its   *)
(* SequentialMode and AsynchronousMode, and the Writer.                    *)
(*                                                                         *)
(* Bytes are integers 0..255 and strings are sequences of bytes.  A byte   *)
(* stream is a sequence; a position p in it means "p bytes consumed".      *)
(* Reads of the stream do not fail other than by reaching its end.         *)
(***************************************************************************)
EXTENDS Integers, Sequences, FiniteSets, TLC

\* ------------------------------------------------------------------ bounds
\* Largest number of bytes a caller asks for in one Content.Read call.
MaxRead == 2
\* Size of bufio.Reader's internal buffer (4096 in the program), scaled down
\* so that header lines are longer than the buffer.
BufSize == 8
\* len(r.buffer), the buffer seekRecord drains with (4096 in the program),
\* scaled down so that a content block takes several Read calls to drain.
DrainSize == 2
\* Most ReadRecord calls made on one Reader.
MaxCalls == 4
\* Most Close calls made on one Reader.
MaxCloses == 2
\* Most Set and Del calls made on one Header.
MaxOps == 3

\* ------------------------------------------------------------------- bytes
CR == 13
LF == 10
Colon == 58
Space == 32

Min(a, b) == IF a < b THEN a ELSE b
Max(a, b) == IF a > b THEN a ELSE b

\* F applied to the value of e.
Let(F(_), e) == CHOOSE y \in {F(x) : x \in {e}} : TRUE

\* s[a..b] as a sequence; empty when b < a.
Slice(s, a, b) == IF b < a THEN << >> ELSE SubSeq(s, a, b)

\* "WARC/1.0"
VersionLine == <<87, 65, 82, 67, 47, 49, 46, 48>>
\* "content-length"
KeyContentLength == <<99, 111, 110, 116, 101, 110, 116, 45, 108, 101, 110, 103, 116, 104>>
\* "warc-date"
KeyWarcDate == <<119, 97, 114, 99, 45, 100, 97, 116, 101>>
\* "warc-type"
KeyWarcType == <<119, 97, 114, 99, 45, 116, 121, 112, 101>>
\* "resource"
ValResource == <<114, 101, 115, 111, 117, 114, 99, 101>>
CRLF == <<CR, LF>>

\* --------------------------------------------------------- string helpers
\* unicode.IsSpace restricted to ASCII.
IsSpace(b) == b \in {9, 10, 11, 12, 13, Space}

IsUpper(b) == b >= 65 /\ b <= 90
IsLower(b) == b >= 97 /\ b <= 122
IsDigit(b) == b >= 48 /\ b <= 57

\* strings.ToLower on ASCII.
ToLower(s) == [i \in 1..Len(s) |-> IF IsUpper(s[i]) THEN s[i] + 32 ELSE s[i]]

\* strings.Title on ASCII: a letter is upper-cased when the byte before it
\* is a separator (anything but a letter, a digit or '_'); the string starts
\* after a separator.
IsSeparator(b) == ~(IsUpper(b) \/ IsLower(b) \/ IsDigit(b) \/ b = 95)
Title(s) ==
  [i \in 1..Len(s) |->
     IF IsLower(s[i]) /\ (i = 1 \/ IsSeparator(s[i - 1])) THEN s[i] - 32 ELSE s[i]]

\* strings.TrimSpace on ASCII.
RECURSIVE TrimLeft(_)
TrimLeft(s) == IF s # << >> /\ IsSpace(Head(s)) THEN TrimLeft(Tail(s)) ELSE s
RECURSIVE TrimRight(_)
TrimRight(s) ==
  IF s # << >> /\ IsSpace(s[Len(s)]) THEN TrimRight(SubSeq(s, 1, Len(s) - 1)) ELSE s
TrimSpace(s) == TrimRight(TrimLeft(s))

\* strconv.Itoa.
RECURSIVE Itoa(_)
Itoa(n) ==
  IF n < 0 THEN <<45>> \o Itoa(0 - n)
  ELSE IF n < 10 THEN <<48 + n>>
  ELSE Itoa(n \div 10) \o <<48 + (n % 10)>>

\* strconv.Atoi: an optional sign followed by one or more decimal digits.
\* The result is [err |-> TRUE] or [err |-> FALSE, val |-> n].
RECURSIVE DigitsValue(_, _)
DigitsValue(s, acc) ==
  IF s = << >> THEN acc ELSE DigitsValue(Tail(s), acc * 10 + (Head(s) - 48))
Atoi(s) ==
  LET signed == s # << >> /\ s[1] \in {43, 45}
      digits == IF signed THEN Tail(s) ELSE s
  IN  IF digits = << >> \/ \E i \in 1..Len(digits) : ~IsDigit(digits[i])
        THEN [err |-> TRUE, val |-> 0]
        ELSE [err |-> FALSE,
              val |-> IF signed /\ s[1] = 45 THEN 0 - DigitsValue(digits, 0)
                      ELSE DigitsValue(digits, 0)]

\* ------------------------------------------------------------------ Header
\* type Header map[string]string: a function from keys to values.
NewHeader == [k \in {} |-> << >>]

\* A Go map read: the zero value "" when the key is absent.
MapGet(h, key) == IF key \in DOMAIN h THEN h[key] ELSE << >>
\* A Go map assignment.
MapPut(h, key, value) ==
  [k \in DOMAIN h \cup {key} |-> IF k = key THEN value ELSE h[k]]

\* Header.Set that takes the key as it is.
HeaderSet_CaseSensitive(h, key, value) == MapPut(h, key, value)

HeaderSet(h, key, value) == MapPut(h, ToLower(key), value)
HeaderGet(h, key) == MapGet(h, ToLower(key))
HeaderDel(h, key) == [k \in DOMAIN h \ {ToLower(key)} |-> h[k]]

\* splitKeyValue: strings.SplitN(line, ":", 2); a line without ':' gives
\* two empty strings.
FirstColon(line) ==
  IF \E i \in 1..Len(line) : line[i] = Colon
    THEN CHOOSE i \in 1..Len(line) :
           line[i] = Colon /\ \A j \in 1..(i - 1) : line[j] # Colon
    ELSE 0
\* splitKeyValue without strings.TrimSpace.
splitKeyValue_NoTrim(line) ==
  LET c == FirstColon(line)
  IN  IF c = 0 THEN [key |-> << >>, value |-> << >>]
      ELSE [key |-> Slice(line, 1, c - 1), value |-> Slice(line, c + 1, Len(line))]

splitKeyValue(line) ==
  LET c == FirstColon(line)
  IN  IF c = 0 THEN [key |-> << >>, value |-> << >>]
      ELSE [key |-> Slice(line, 1, c - 1),
            value |-> TrimSpace(Slice(line, c + 1, Len(line)))]

\* ------------------------------------------------------------ line reading
\* bufio.Reader.ReadLine at position pos of stream s, as readLine calls it.
\* ReadSlice('\n') looks at no more than BufSize bytes from the position:
\* a line feed among them ends the line (the line feed and a carriage return
\* before it are dropped); BufSize bytes without a line feed are returned as
\* a prefix (a trailing carriage return is put back); at the end of the
\* stream the remaining bytes are a line, and no bytes at all is io.EOF.
ReadLine(s, pos) ==
  LET hi == Min(pos + BufSize, Len(s))
      nl == {p \in (pos + 1)..hi : s[p] = LF}
  IN  IF nl # {}
        THEN LET p == CHOOSE q \in nl : \A q2 \in nl : q <= q2
                 drop == IF p - pos > 1 /\ s[p - 1] = CR THEN 2 ELSE 1
             IN  [data |-> Slice(s, pos + 1, p - drop), isPrefix |-> FALSE,
                  err |-> "nil", next |-> p]
      ELSE IF Len(s) - pos >= BufSize
        THEN LET back == IF s[pos + BufSize] = CR THEN 1 ELSE 0
             IN  [data |-> Slice(s, pos + 1, pos + BufSize - back),
                  isPrefix |-> TRUE, err |-> "nil", next |-> pos + BufSize - back]
      ELSE IF pos >= Len(s)
        THEN [data |-> << >>, isPrefix |-> FALSE, err |-> "EOF", next |-> pos]
      ELSE [data |-> Slice(s, pos + 1, Len(s)), isPrefix |-> FALSE,
            err |-> "nil", next |-> Len(s)]

\* Reader.readLine: the next line of the stream, the position after it, and
\* the error ("nil" or "EOF").  The chunks ReadLine returns are appended to
\* the buffer for as long as it flags them as a prefix; readLineChunk
\* handles the chunk c that one ReadLine call returned.
RECURSIVE readLineLoop(_, _, _)
\* readLine that returns the last chunk of a line only.
readLineChunk_LastOnly(s, buffer, c) ==
  IF c.err # "nil" THEN [line |-> << >>, err |-> c.err, next |-> c.next]
  ELSE IF c.isPrefix THEN readLineLoop(s, c.next, buffer \o c.data)
  ELSE [line |-> c.data, err |-> "nil", next |-> c.next]

readLineChunk(s, buffer, c) ==
  IF c.err # "nil" THEN [line |-> << >>, err |-> c.err, next |-> c.next]
  ELSE IF c.isPrefix THEN readLineLoop(s, c.next, buffer \o c.data)
  ELSE [line |-> buffer \o c.data, err |-> "nil", next |-> c.next]
readLineLoop(s, pos, buffer) ==
  Let(LAMBDA c : readLineChunk(s, buffer, c), ReadLine(s, pos))
readLine(s, pos) == readLineLoop(s, pos, << >>)

\* ------------------------------------------------------------- compression
CompressionNone == "CompressionNone"
CompressionBZIP == "CompressionBZIP"
CompressionGZIP == "CompressionGZIP"

\* guessCompression that looks at the first byte only.
guessCompression_FirstByte(b) ==
  IF Len(b) < 2 THEN CompressionNone
  ELSE IF b[1] = 66 THEN CompressionBZIP
  ELSE IF b[1] = 31 THEN CompressionGZIP
  ELSE CompressionNone

\* guessCompression on the raw stream b: Peek(2) is matched with the magic
\* numbers; a stream of fewer than two bytes is not compressed.
guessCompression(b) ==
  IF Len(b) < 2 THEN CompressionNone
  ELSE IF b[1] = 66 /\ b[2] = 90 THEN CompressionBZIP
  ELSE IF b[1] = 31 /\ b[2] = 139 THEN CompressionGZIP
  ELSE CompressionNone

\* The compressed formats, cut down to their first three bytes (the magic
\* number and the method byte: 1f 8b 08 and "BZh") followed by the data as
\* it is.  Pack is what a compressor writes for the data.
Magic(compr) ==
  IF compr = CompressionGZIP THEN <<31, 139, 8>>
  ELSE IF compr = CompressionBZIP THEN <<66, 90, 104>>
  ELSE << >>
Pack(compr, data) == Magic(compr) \o data
\* The stream b begins with the head of the format.
Packed(b, compr) ==
  Len(b) >= Len(Magic(compr)) /\ SubSeq(b, 1, Len(Magic(compr))) = Magic(compr)

\* decompress: the compression type, whether gzip.NewReader rejected the
\* head of the stream (err), whether the bzip2 reader, which looks at the
\* head of the stream at the first Read, is going to reject it (corrupt),
\* and the bytes the resulting source delivers.
decompressAs(b, compr) ==
  [compr |-> compr,
   err |-> compr = CompressionGZIP /\ ~Packed(b, compr),
   corrupt |-> compr = CompressionBZIP /\ ~Packed(b, compr),
   data |-> Slice(b, Len(Magic(compr)) + 1, Len(b))]
decompress(b) == decompressAs(b, guessCompression(b))

\* How many times one Close of the source that decompress returned closes
\* the raw stream: gzip.Reader.Close does not close the underlying reader,
\* and the ioutil.NopCloser of the other two sources does nothing at all.
sourceClose(compr) ==
  CASE compr = CompressionGZIP -> 0
    [] compr = CompressionBZIP -> 0
    [] OTHER -> 0

\* ----------------------------------------------------------------- content
SequentialMode == "SequentialMode"
AsynchronousMode == "AsynchronousMode"
Modes == {SequentialMode, AsynchronousMode}

\* sliceReader with a limit that is one byte too large.
sliceReader_OneMore(s, pos, size, clone) ==
  IF ~clone
    THEN [kind |-> "limit", N |-> size + 1, data |-> << >>, off |-> 0, next |-> pos]
    ELSE [kind |-> "bytes", N |-> 0,
          data |-> Slice(s, pos + 1, pos + Min(Max(size + 1, 0), Len(s) - pos)),
          off |-> 0, next |-> pos + Min(Max(size + 1, 0), Len(s) - pos)]

\* sliceReader that never makes a copy.
sliceReader_NoClone(s, pos, size, clone) ==
  [kind |-> "limit", N |-> size, data |-> << >>, off |-> 0, next |-> pos]

\* sliceReader whose copy is made without moving the source on.
sliceReader_Peek(s, pos, size, clone) ==
  IF ~clone
    THEN [kind |-> "limit", N |-> size, data |-> << >>, off |-> 0, next |-> pos]
    ELSE [kind |-> "bytes", N |-> 0,
          data |-> Slice(s, pos + 1, pos + Min(Max(size, 0), Len(s) - pos)),
          off |-> 0, next |-> pos]

\* sliceReader(source, size, clone).  The result is the Content of a record
\* and the position of the source afterwards.  Without clone the Content is
\* an io.LimitedReader on the source (kind "limit", N bytes left); with clone
\* ioutil.ReadAll reads the limited reader to its end and the Content is a
\* bytes.Reader on the copy (kind "bytes", data and read offset off).
sliceReader(s, pos, size, clone) ==
  IF ~clone
    THEN [kind |-> "limit", N |-> size, data |-> << >>, off |-> 0, next |-> pos]
    ELSE LET n == Min(Max(size, 0), Len(s) - pos)
         IN  [kind |-> "bytes", N |-> 0, data |-> Slice(s, pos + 1, pos + n),
              off |-> 0, next |-> pos + n]

\* How many bytes one Content.Read can deliver at most: an io.LimitedReader
\* with N <= 0 is at its end, otherwise it passes the read on to the source;
\* a bytes.Reader delivers from its own copy.
Readable(c, s, pos) ==
  IF c.kind = "limit" THEN (IF c.N <= 0 THEN 0 ELSE Min(c.N, Len(s) - pos))
  ELSE Len(c.data) - c.off

\* ------------------------------------------------------------------ reader
\* A drain that calls Read once instead of until the Content is at its end.
Drain_Once(s, pos, left) ==
  [next |-> pos + (IF left <= 0 THEN 0 ELSE Min(Min(DrainSize, left), Len(s) - pos)),
   N |-> left - (IF left <= 0 THEN 0 ELSE Min(Min(DrainSize, left), Len(s) - pos))]

\* A drain loop that reads nothing.
Drain_None(s, pos, left) == [next |-> pos, N |-> left]

\* The drain loop of seekRecord in SequentialMode: r.record.Content.Read is
\* called with the DrainSize-byte buffer until it returns no bytes or an
\* error.  The result is the position of the source and the bytes left in
\* the limited reader afterwards.
RECURSIVE Drain(_, _, _)
Drain(s, pos, left) ==
  Let(LAMBDA n : IF n = 0 THEN [next |-> pos, N |-> left]
                 ELSE Drain(s, pos + n, left - n),
      IF left <= 0 THEN 0 ELSE Min(Min(DrainSize, left), Len(s) - pos))

\* The loop of seekRecord over the two separator lines, from its i-th round
\* on: the error it returns ("nil", "EOF" or "framing") and the position
\* afterwards.  emptyLine handles the line l that readLine returned.
RECURSIVE emptyLines(_, _, _)
emptyLine(s, i, l) ==
  IF l.err # "nil" THEN [err |-> l.err, next |-> l.next]
  ELSE IF l.line # << >> THEN [err |-> "framing", next |-> l.next]
  ELSE emptyLines(s, l.next, i + 1)
emptyLines(s, pos, i) ==
  IF i >= 2 THEN [err |-> "nil", next |-> pos]
  ELSE Let(LAMBDA l : emptyLine(s, i, l), readLine(s, pos))

\* Reader.seekRecord for a reader rd whose returned records are hs.  Without
\* a current record nothing happens (seek = FALSE).  Otherwise the current
\* record's Content is drained in SequentialMode (d is where that leaves the
\* source and the limited reader), r.record is set to nil and the two
\* separator lines are read (t).  drained is the position at which the
\* separator lines are looked for.
seekLines(rd, hs, d, t) ==
  [seek |-> TRUE, err |-> t.err, next |-> t.next, drained |-> d.next,
   recs |-> [hs EXCEPT ![rd.record].N = d.N]]
seekDrained(rd, hs, s, d) ==
  Let(LAMBDA t : seekLines(rd, hs, d, t), emptyLines(s, d.next, 0))
seekRecord(rd, hs, s) ==
  IF rd.record = 0
    THEN [seek |-> FALSE, err |-> "nil", next |-> rd.cursor,
          drained |-> rd.cursor, recs |-> hs]
    ELSE Let(LAMBDA d : seekDrained(rd, hs, s, d),
             IF rd.mode = SequentialMode
               THEN Drain(s, rd.cursor, hs[rd.record].N)
               ELSE [next |-> rd.cursor, N |-> hs[rd.record].N])

\* The header loop of ReadRecord: lines up to the first empty line; a line
\* with a key is stored with Header.Set, any other line is skipped.
\* headerField handles the key and value of a line, headerLine the line l
\* that readLine returned.
RECURSIVE parseHeader(_, _, _)
headerField(header, kv) ==
  IF kv.key # << >> THEN HeaderSet(header, kv.key, kv.value) ELSE header
headerLine(s, header, l) ==
  IF l.err # "nil" THEN [err |-> l.err, header |-> header, next |-> l.next]
  ELSE IF l.line = << >> THEN [err |-> "nil", header |-> header, next |-> l.next]
  ELSE Let(LAMBDA h : parseHeader(s, l.next, h),
           Let(LAMBDA kv : headerField(header, kv), splitKeyValue(l.line)))
parseHeader(s, pos, header) ==
  Let(LAMBDA l : headerLine(s, header, l), readLine(s, pos))

\* Reader.ReadRecord on an open reader rd with returned records hs over the
\* stream s.  The result holds the reader and its records afterwards and
\* what the call returned: out is "record" (the new last element of recs,
\* which notes where its version line begins and where its content starts),
\* "EOF" (io.EOF) or "parse" (the Content-Length error).  The error of
\* seekRecord is not looked at by ReadRecord; it is kept in seekErr, with
\* prev, the index of the record that was current when the call began.
\* The steps: seekRecord (sk), the version line (ver), the header
\* block (hd), strconv.Atoi on content-length (length), sliceReader (content).
\* A failed ReadRecord that leaves the source at the start of the stream.
readFailed_Rewind(rd, sk, e, pos) ==
  [reader |-> [rd EXCEPT !.record = 0, !.cursor = 0],
   recs |-> sk.recs,
   result |-> [out |-> e, seek |-> sk.seek, seekErr |-> sk.err,
               drained |-> sk.drained, prev |-> rd.record]]

\* A ReadRecord that returns a Record and leaves the source at the start of
\* the stream, without a current record.
readContent_Rewind(rd, sk, hd, length, content) ==
  [reader |-> [rd EXCEPT !.record = 0, !.cursor = 0],
   recs |-> Append(sk.recs,
                   [kind |-> content.kind, N |-> content.N,
                    data |-> content.data, off |-> content.off,
                    header |-> hd.header, begin |-> sk.next, start |-> hd.next,
                    length |-> length, got |-> << >>]),
   result |-> [out |-> "record", seek |-> sk.seek, seekErr |-> sk.err,
               drained |-> sk.drained, prev |-> rd.record]]

readFailed(rd, sk, e, pos) ==
  [reader |-> [rd EXCEPT !.record = 0, !.cursor = pos],
   recs |-> sk.recs,
   result |-> [out |-> e, seek |-> sk.seek, seekErr |-> sk.err,
               drained |-> sk.drained, prev |-> rd.record]]
readContent(rd, sk, hd, length, content) ==
  [reader |-> [rd EXCEPT !.record = Len(sk.recs) + 1, !.cursor = content.next],
   recs |-> Append(sk.recs,
                   [kind |-> content.kind, N |-> content.N,
                    data |-> content.data, off |-> content.off,
                    header |-> hd.header, begin |-> sk.next, start |-> hd.next,
                    length |-> length, got |-> << >>]),
   result |-> [out |-> "record", seek |-> sk.seek, seekErr |-> sk.err,
               drained |-> sk.drained, prev |-> rd.record]]
readLength(rd, s, sk, hd, length) ==
  IF length.err THEN readFailed(rd, sk, "parse", hd.next)
  ELSE Let(LAMBDA content : readContent(rd, sk, hd, length.val, content),
           sliceReader(s, hd.next, length.val, rd.mode = AsynchronousMode))
readHeader(rd, s, sk, hd) ==
  IF hd.err # "nil" THEN readFailed(rd, sk, hd.err, hd.next)
  ELSE Let(LAMBDA length : readLength(rd, s, sk, hd, length),
           Atoi(MapGet(hd.header, KeyContentLength)))
readVersion(rd, s, sk, ver) ==
  IF ver.err # "nil" THEN readFailed(rd, sk, ver.err, ver.next)
  ELSE Let(LAMBDA hd : readHeader(rd, s, sk, hd), parseHeader(s, ver.next, NewHeader))
readSought(rd, s, sk) ==
  Let(LAMBDA ver : readVersion(rd, s, sk, ver), readLine(s, sk.next))
\* ReadRecord without the call of seekRecord.
ReadRecordOpen_NoSeek(rd, hs, s) ==
  readSought(rd, s, [seek |-> FALSE, err |-> "nil", next |-> rd.cursor,
                     drained |-> rd.cursor, recs |-> hs])
ReadRecordOpen(rd, hs, s) ==
  Let(LAMBDA sk : readSought(rd, s, sk), seekRecord(rd, hs, s))

\* ------------------------------------------------------------------ writer
\* WriteHeader that keeps a content-length of the caller's.
WriteHeader_KeepLength(h, n, now) ==
  LET h1 == IF MapGet(h, KeyContentLength) = << >>
              THEN MapPut(h, KeyContentLength, Itoa(n)) ELSE h
      h2 == IF MapGet(h1, KeyWarcDate) = << >> THEN MapPut(h1, KeyWarcDate, now) ELSE h1
  IN  IF MapGet(h2, KeyWarcType) = << >> THEN MapPut(h2, KeyWarcType, ValResource) ELSE h2

\* WriteHeader that sets warc-date and warc-type whatever the caller set.
WriteHeader_Defaults(h, n, now) ==
  MapPut(MapPut(MapPut(h, KeyContentLength, Itoa(n)), KeyWarcDate, now),
         KeyWarcType, ValResource)

\* The header as WriteRecord leaves it: content-length is set to the number
\* of content bytes, warc-date and warc-type are set when they read as "".
WriteHeader(h, n, now) ==
  LET h1 == MapPut(h, KeyContentLength, Itoa(n))
      h2 == IF MapGet(h1, KeyWarcDate) = << >> THEN MapPut(h1, KeyWarcDate, now) ELSE h1
  IN  IF MapGet(h2, KeyWarcType) = << >> THEN MapPut(h2, KeyWarcType, ValResource) ELSE h2

\* A WriteRecord that looks at the error of ioutil.ReadAll after it has set
\* the header fields.
readAllFailed_Late(h, n, now) ==
  [Header |-> WriteHeader(h, n, now), total |-> 0, err |-> "content", out |-> << >>]

\* WriteRecord when ioutil.ReadAll(r.Content) returns an error after n bytes:
\* it returns 0 and the error at once; the header is as it was and nothing
\* went out to the target.
readAllFailed(h, n, now) ==
  [Header |-> h, total |-> 0, err |-> "content", out |-> << >>]

\* The orders in which "for key, value := range r.Header" can visit the keys.
Orders(h) ==
  {o \in [1..Cardinality(DOMAIN h) -> DOMAIN h] :
     \A i, j \in DOMAIN o : i # j => o[i] # o[j]}

\* The header lines WriteRecord emits for the keys order[i..].
RECURSIVE HeaderLines(_, _, _)
HeaderLines(h, order, i) ==
  IF i > Len(order) THEN << >>
  ELSE Title(order[i]) \o <<Colon, Space>> \o h[order[i]] \o CRLF
       \o HeaderLines(h, order, i + 1)

\* The record layout of WriteRecord: the bytes of a record with header h,
\* its fields in the given order, and content data.
Encode(h, order, data) ==
  VersionLine \o CRLF \o HeaderLines(h, order, 1) \o CRLF \o data \o CRLF \o CRLF

\* Chunks without the empty line that ends the header block.
Chunks_NoEmptyLine(h, order, data) ==
  <<VersionLine \o CRLF>>
  \o [i \in 1..Len(order) |-> Title(order[i]) \o <<Colon, Space>> \o h[order[i]] \o CRLF]
  \o <<data \o CRLF \o CRLF>>

\* Chunks with one line break after the content.
Chunks_OneBreak(h, order, data) ==
  <<VersionLine \o CRLF>>
  \o [i \in 1..Len(order) |-> Title(order[i]) \o <<Colon, Space>> \o h[order[i]] \o CRLF]
  \o <<CRLF \o data \o CRLF>>

\* What the Fprintf calls of WriteRecord format, one chunk per call: the
\* version line, a line per header field in the order of the range loop,
\* and the empty line, the content and the two closing line breaks.
Chunks(h, order, data) ==
  <<VersionLine \o CRLF>>
  \o [i \in 1..Len(order) |-> Title(order[i]) \o <<Colon, Space>> \o h[order[i]] \o CRLF]
  \o <<CRLF \o data \o CRLF \o CRLF>>

\* A failed write whose bytes are not added to the total.
writeFailed_NotCounted(total, out, chunk, n) ==
  [total |-> total, err |-> "write", out |-> out \o Slice(chunk, 1, n)]

\* The helper write of WriteRecord when the target took only n bytes of the
\* chunk: the bytes are counted and the error is returned.
writeFailed(total, out, chunk, n) ==
  [total |-> total + n, err |-> "write", out |-> out \o Slice(chunk, 1, n)]

\* The writes of WriteRecord from the i-th chunk on, to a target that takes
\* room more bytes and fails the Write that does not fit: the total that
\* WriteRecord returns, its error and the bytes out that reached the target.
RECURSIVE writeChunks(_, _, _, _, _)
writeChunks(chunks, i, room, total, out) ==
  IF i > Len(chunks) THEN [total |-> total, err |-> "nil", out |-> out]
  ELSE IF room < Len(chunks[i]) THEN writeFailed(total, out, chunks[i], room)
  ELSE writeChunks(chunks, i + 1, room - Len(chunks[i]),
                   total + Len(chunks[i]), out \o chunks[i])

\* ---------------------------------------------------------------- test data
\* "foo" "bar" "a-b" "x y" "t" "d" "Hi", CR LF NUL
Foo == <<102, 111, 111>>
Bar == <<98, 97, 114>>
AB == <<97, 45, 98>>
XY == <<120, 32, 121>>
Hi == <<72, 105>>
Binary == <<CR, LF, 0>>
\* The value time.Now().Format(time.RFC3339) has at a write: "2T1:0Z".
Time1 == <<50, 84, 49, 58, 48, 90>>

H1(k, v) == MapPut(NewHeader, k, v)
Dated(h) == MapPut(MapPut(h, KeyWarcType, <<116>>), KeyWarcDate, <<100>>)

\* The record lists a caller writes, as testRecords of TestWriteRead.
Fixtures ==
  { <<[Header |-> H1(Foo, Bar), Content |-> Hi, now |-> Time1],
      [Header |-> Dated(H1(AB, XY)), Content |-> Binary, now |-> Time1]>>,
    \* a value with a leading space
    <<[Header |-> H1(Foo, <<Space>> \o Bar), Content |-> << >>, now |-> Time1]>>,
    \* a key with an upper-case letter
    <<[Header |-> Dated(H1(Title(Foo), Bar)), Content |-> Hi, now |-> Time1]>>,
    \* a content-length of the caller's
    <<[Header |-> Dated(H1(KeyContentLength, <<57>>)), Content |-> <<0>>, now |-> Time1]>>,
    \* a value with a line feed
    <<[Header |-> Dated(H1(Foo, <<98, LF, 99>>)), Content |-> Hi, now |-> Time1]>>,
    \* a warc-type of the caller's that is ""
    <<[Header |-> MapPut(Dated(H1(Foo, Bar)), KeyWarcType, << >>),
       Content |-> Hi, now |-> Time1]>> }

\* A header whose lines a WARC reader can take apart again: keys without
\* ':' and line breaks, values without line breaks, one content-length.
HasByte(str, bs) == \E i \in 1..Len(str) : str[i] \in bs
WellFormedHeader(h) ==
  \A k \in DOMAIN h :
    /\ k # << >>
    /\ ~HasByte(k, {CR, LF, Colon})
    /\ ~HasByte(h[k], {CR, LF})
    /\ (ToLower(k) = KeyContentLength => k = KeyContentLength)

\* Archive files that were not written by the Writer, as lists of pieces.
\* A piece is a record or stray bytes: bytes is what it adds to the file,
\* head the length of its version line, header lines and empty line, data
\* the length of its content block, wf whether it is a well-formed record.
Line(x) == x \o CRLF
ContentLengthLine(v) == Line(Title(KeyContentLength) \o <<Colon, Space>> \o v)
RawRecord(lines, data, sep, wf) ==
  [bytes |-> Line(VersionLine) \o lines \o CRLF \o data \o sep,
   head |-> Len(Line(VersionLine) \o lines \o CRLF), data |-> Len(data), wf |-> wf]
\* Content-Length: 3, content "a" LF "b"
PieceOk1 == RawRecord(ContentLengthLine(Itoa(3)), <<97, LF, 98>>, CRLF \o CRLF, TRUE)
\* content-length:1 and "K: v:w ", content "Z"
PieceOk2 ==
  RawRecord(Line(KeyContentLength \o <<Colon>> \o Itoa(1))
            \o Line(<<75, Colon, Space, 118, Colon, 119, Space>>),
            <<90>>, CRLF \o CRLF, TRUE)
\* a stray line "x"
PieceJunk == [bytes |-> Line(<<120>>), head |-> 0, data |-> 0, wf |-> FALSE]
\* Content-Length: -1
PieceNegative == RawRecord(ContentLengthLine(Itoa(0 - 1)), << >>, CRLF \o CRLF, FALSE)
\* Content-Length: x
PieceNonNumeric == RawRecord(ContentLengthLine(<<120>>), << >>, CRLF \o CRLF, FALSE)
\* a line without ':' and no Content-Length, content "Q"
PieceMissing == RawRecord(Line(Foo), <<81>>, CRLF \o CRLF, FALSE)
\* Content-Length: 2, content "ab", then the lines "x" and "" 
PieceBadSep1 ==
  RawRecord(ContentLengthLine(Itoa(2)), <<97, 98>>, Line(<<120>>) \o CRLF, FALSE)
\* Content-Length: 2, content "ab", then the lines "" and "x"
PieceBadSep2 ==
  RawRecord(ContentLengthLine(Itoa(2)), <<97, 98>>, CRLF \o Line(<<120>>), FALSE)

\* the lines ": x", "K: 1", "k:2" and "foo", Content-Length: 0
PieceEmptyKey ==
  RawRecord(Line(<<Colon, Space, 120>>) \o Line(<<75, Colon, Space, 49>>)
            \o Line(<<107, Colon, 50>>) \o Line(Foo) \o ContentLengthLine(Itoa(0)),
            << >>, CRLF \o CRLF, FALSE)

RawBases ==
  { <<PieceOk1, PieceOk2>>,
    <<PieceEmptyKey>>,
    <<PieceOk1, PieceJunk, PieceOk2>>,
    <<PieceOk2, PieceNegative, PieceOk1>>,
    <<PieceOk1, PieceNonNumeric, PieceOk2>>,
    <<PieceMissing, PieceOk2>>,
    <<PieceBadSep1, PieceOk2>>,
    <<PieceBadSep2, PieceOk2>> }

RECURSIVE Concat(_, _)
Concat(pieces, k) ==
  IF k = 0 THEN << >> ELSE Concat(pieces, k - 1) \o pieces[k].bytes

\* The well-formed records the pieces start with.
RECURSIVE Leading(_, _)
Leading(pieces, k) ==
  IF k < Len(pieces) /\ pieces[k + 1].wf THEN Leading(pieces, k + 1) ELSE k

\* The shape of the first n bytes of the pieces: nrecords is the number of
\* complete well-formed records they start with, and ending says what comes
\* after these: nothing ("boundary"), the beginning of one more well-formed
\* record that stops in its version line ("version"), in its header block
\* ("header"), in its content block ("content") or in its two separator
\* lines ("separator"), or anything else ("other").
Shape(pieces, n) ==
  LET lead == Leading(pieces, 0)
      whole == CHOOSE k \in 0..lead :
                 /\ Len(Concat(pieces, k)) <= n
                 /\ (k < lead => Len(Concat(pieces, k + 1)) > n)
      o == n - Len(Concat(pieces, whole))
  IN  [nrecords |-> whole,
       ending |-> IF o = 0 THEN "boundary"
                  ELSE IF whole = lead THEN "other"
                  ELSE IF o < Len(Line(VersionLine)) THEN "version"
                  ELSE IF o < pieces[whole + 1].head THEN "header"
                  ELSE IF o < pieces[whole + 1].head + pieces[whole + 1].data THEN "content"
                  ELSE "separator"]

\* Every file that is the beginning of one of the raw archive files.
RawFiles ==
  UNION { LET all == Concat(base, Len(base))
          IN  { [bytes |-> Slice(all, 1, n)] @@ Shape(base, n) : n \in 0..Len(all) } :
          base \in RawBases }

\* ------------------------------------------------------------------- state
VARIABLES
  file,      \* the bytes of the archive: the Writer's target, the Reader's stream
  raw,       \* the raw stream handed to NewReaderMode: the archive, compressed or not
  hdr,       \* a Header of the caller's and the Set and Del calls made on it
  nrecords,  \* how many complete well-formed records the file starts with
  ending,    \* what the file holds after them, see Shape
  fixture,   \* the records the caller is going to write
  written,   \* per WriteRecord call: the record's header afterwards, the int returned
  reader,    \* per Reader: the fields of the struct
  recs,      \* per Reader: the Records ReadRecord returned, with their Content
  results    \* per Reader: what each ReadRecord call returned

vars == <<file, raw, hdr, nrecords, ending, fixture, written, reader, recs, results>>

Readers == {1, 2}

\* A Reader that NewReaderMode has not made yet.
NoReader ==
  [constructed |-> FALSE, mode |-> SequentialMode,
   compression |-> CompressionNone, source |-> "nil",
   cursor |-> 0, record |-> 0, closes |-> 0, rawCloses |-> 0, closeCalls |-> 0]

\* A Header nobody has touched.
NoHeader == [h |-> NewHeader, log |-> << >>]

InitReaders ==
  /\ hdr = NoHeader
  /\ reader = [r \in Readers |-> NoReader]
  /\ recs = [r \in Readers |-> << >>]
  /\ results = [r \in Readers |-> << >>]

\* An empty buffer and a list of records to write to it.
Init ==
  /\ file = << >>
  /\ raw = << >>
  /\ nrecords = 0
  /\ ending = "boundary"
  /\ fixture \in Fixtures
  /\ written = << >>
  /\ InitReaders

\* An archive file from elsewhere, complete or cut off anywhere.
InitRaw ==
  /\ \E f \in RawFiles : file = f.bytes /\ nrecords = f.nrecords /\ ending = f.ending
  /\ raw = file
  /\ fixture = << >>
  /\ written = << >>
  /\ InitReaders

\* The keys and values a caller uses with Header.Set, Get and Del:
\* "k", "K", "q" and "1", "2".
HeaderKeys == {<<107>>, <<75>>, <<113>>}
HeaderValues == {<<49>>, <<50>>}

\* ----------------------------------------------------------------- actions
\* Header.Set(key, value) on the caller's Header.
Set(key, value) ==
  /\ Len(hdr.log) < MaxOps
  /\ hdr' = [h |-> HeaderSet(hdr.h, key, value),
             log |-> Append(hdr.log, [op |-> "Set", key |-> key, value |-> value])]
  /\ UNCHANGED <<file, raw, nrecords, ending, fixture, written, reader, recs, results>>

\* Header.Del(key) on the caller's Header.
Del(key) ==
  /\ Len(hdr.log) < MaxOps
  /\ hdr' = [h |-> HeaderDel(hdr.h, key),
             log |-> Append(hdr.log, [op |-> "Del", key |-> key, value |-> << >>])]
  /\ UNCHANGED <<file, raw, nrecords, ending, fixture, written, reader, recs, results>>

\* Writer.WriteRecord on the next record of the fixture, to a target that
\* takes every byte (fails = FALSE) or fails after some of them; the file is
\* written before a Reader is opened on it, and the caller stops writing at
\* the first error.  With broken the record's Content is a reader that
\* returns an error after some of its bytes.
WriteRecordOn(fails, broken) ==
  /\ Len(written) < Len(fixture)
  /\ \A i \in 1..Len(written) : written[i].err = "nil"
  /\ \A r \in Readers : ~reader[r].constructed
  /\ LET rec == fixture[Len(written) + 1]
         data == rec.Content
         h == WriteHeader(rec.Header, Len(data), rec.now)
     IN  IF broken
           THEN \E n \in 0..Len(data) :
                  LET w == readAllFailed(rec.Header, n, rec.now)
                  IN  /\ file' = file \o w.out
                      /\ raw' = file'
                      /\ written' = Append(written,
                                           [Header |-> w.Header, total |-> w.total,
                                            err |-> w.err])
                      /\ IF w.out = << >>
                           THEN nrecords' = nrecords /\ ending' = ending
                           ELSE nrecords' = nrecords /\ ending' = "other"
           ELSE \E order \in Orders(h) :
                  \E room \in IF fails THEN 0..(Len(Encode(h, order, data)) - 1)
                                       ELSE {Len(Encode(h, order, data))} :
                    LET w == writeChunks(Chunks(h, order, data), 1, room, 0, << >>)
                    IN  /\ file' = file \o w.out
                        /\ raw' = file'
                        /\ written' = Append(written,
                                             [Header |-> h, total |-> w.total,
                                              err |-> w.err])
                        /\ IF ending = "boundary" /\ WellFormedHeader(rec.Header)
                                /\ w.err = "nil"
                             THEN nrecords' = nrecords + 1 /\ ending' = ending
                             ELSE nrecords' = nrecords /\ ending' = "other"
  /\ UNCHANGED <<hdr, fixture, reader, recs, results>>

\* Writer.WriteRecord of a record with a bytes.Reader as Content to a
\* bytes.Buffer.
WriteRecord == WriteRecordOn(FALSE, FALSE)

\* NewReaderMode(raw, mode) making Reader r.  The source that decompress
\* returns delivers the bytes of the archive; when decompress fails there
\* is no Reader.
NewReaderMode(r, mode) ==
  /\ ~reader[r].constructed
  /\ ~decompress(raw).err
  /\ file = decompress(raw).data
  /\ reader' = [reader EXCEPT ![r] =
                  [constructed |-> TRUE, mode |-> mode,
                   compression |-> decompress(raw).compr, source |-> "open",
                   cursor |-> 0, record |-> 0, closes |-> 0, rawCloses |-> 0,
                   closeCalls |-> 0]]
  /\ UNCHANGED <<file, raw, hdr, nrecords, ending, fixture, written, recs, results>>

\* The state of Reader r after a ReadRecord call with the outcome res.
Returned(r, res) ==
  /\ reader' = [reader EXCEPT ![r] = res.reader]
  /\ recs' = [recs EXCEPT ![r] = res.recs]
  /\ results' = [results EXCEPT ![r] = Append(@, res.result)]

\* Reader.ReadRecord.  After Close r.reader is nil and the call panics in
\* readLine; the Reader is left as it is.  On a source that rejects the
\* stream the first readLine returns the error of the source ("source").
ReadRecord(r) ==
  /\ reader[r].constructed
  /\ Len(results[r]) < MaxCalls
  /\ IF reader[r].source = "nil" \/ decompress(raw).corrupt
       THEN /\ results' = [results EXCEPT ![r] =
                             Append(@, [out |-> IF reader[r].source = "nil"
                                                 THEN "panic" ELSE "source",
                                        seek |-> FALSE,
                                        seekErr |-> "nil",
                                        drained |-> reader[r].cursor,
                                        prev |-> 0])]
            /\ UNCHANGED <<reader, recs>>
       ELSE \E res \in {ReadRecordOpen(reader[r], recs[r], file)} : Returned(r, res)
  /\ UNCHANGED <<file, raw, hdr, nrecords, ending, fixture, written>>

\* One Read on the Content of the i-th Record that Reader r returned, which
\* delivers n bytes to the caller.  A limited reader takes them from the
\* Reader's source and moves it on; a bytes.Reader takes them from its copy.
ContentRead(r, i, n) ==
  /\ i \in 1..Len(recs[r])
  /\ n \in 1..Min(MaxRead, Readable(recs[r][i], file, reader[r].cursor))
  /\ LET c == recs[r][i]
         pos == reader[r].cursor
     IN  IF c.kind = "limit"
           THEN /\ recs' = [recs EXCEPT ![r][i].N = c.N - n,
                                        ![r][i].got = c.got \o Slice(file, pos + 1, pos + n)]
                /\ reader' = [reader EXCEPT ![r].cursor = pos + n]
           ELSE /\ recs' = [recs EXCEPT ![r][i].off = c.off + n,
                                        ![r][i].got = c.got \o Slice(c.data, c.off + 1, c.off + n)]
                /\ UNCHANGED reader
  /\ UNCHANGED <<file, raw, hdr, nrecords, ending, fixture, written, results>>

\* Close without the test of r.source.
Closed_Always(rd) ==
  [rd EXCEPT !.source = "nil", !.record = 0, !.closes = @ + 1,
             !.rawCloses = @ + sourceClose(rd.compression),
             !.closeCalls = @ + 1]

\* Close that leaves r.source and r.reader as they are.
Closed_KeepSource(rd) ==
  IF rd.source # "nil"
    THEN [rd EXCEPT !.record = 0, !.closes = @ + 1,
                    !.rawCloses = @ + sourceClose(rd.compression),
                    !.closeCalls = @ + 1]
    ELSE [rd EXCEPT !.closeCalls = @ + 1]

\* One call of Reader.readLine on the open Reader r, as ReadRecord and
\* seekRecord make it, which returned l: the Reader is after the line, and
\* the call is noted with the position it began at.  The caller goes on
\* until a call returns an error.
LineRead(r, l) ==
  /\ reader' = [reader EXCEPT ![r].cursor = l.next]
  /\ results' = [results EXCEPT ![r] =
                   Append(@, [out |-> l.err, line |-> l.line,
                              from |-> reader[r].cursor, next |-> l.next])]
readLineCall(r) ==
  /\ reader[r].constructed /\ reader[r].source = "open"
  /\ IF results[r] = << >> THEN TRUE ELSE results[r][Len(results[r])].out = "nil"
  /\ LineRead(r, readLine(file, reader[r].cursor))
  /\ UNCHANGED <<file, raw, hdr, nrecords, ending, fixture, written, recs>>

\* Reader.Close on the reader rd: an open source is closed and the fields
\* are cleared.  closes counts the Close calls on the source, rawCloses the
\* times the raw stream was closed, closeCalls the calls of Reader.Close.
Closed(rd) ==
  IF rd.source # "nil"
    THEN [rd EXCEPT !.source = "nil", !.record = 0, !.closes = @ + 1,
                    !.rawCloses = @ + sourceClose(rd.compression),
                    !.closeCalls = @ + 1]
    ELSE [rd EXCEPT !.closeCalls = @ + 1]

\* Reader.Close.
Close(r) ==
  /\ reader[r].constructed
  /\ reader[r].closeCalls < MaxCloses
  /\ reader' = [reader EXCEPT ![r] = Closed(reader[r])]
  /\ UNCHANGED <<file, raw, hdr, nrecords, ending, fixture, written, recs, results>>

ReaderNext(r) ==
  \/ ReadRecord(r)
  \/ \E i \in 1..MaxCalls, n \in 1..MaxRead : ContentRead(r, i, n)
  \/ Close(r)

\* A caller writes records to a buffer and reads the buffer back.
Next ==
  \/ WriteRecord
  \/ \E mode \in Modes : NewReaderMode(1, mode)
  \/ ReaderNext(1)

Spec == Init /\ [][Next]_vars

\* A caller writes records, with contents that can fail, to a target that
\* can fail.
NextWrite == \E fails, broken \in BOOLEAN : WriteRecordOn(fails, broken)

SpecWrite == Init /\ [][NextWrite]_vars

\* A caller makes a Header and works on it.
InitHeader ==
  /\ file = << >>
  /\ raw = << >>
  /\ nrecords = 0
  /\ ending = "boundary"
  /\ fixture = << >>
  /\ written = << >>
  /\ InitReaders

NextHeader ==
  \/ \E key \in HeaderKeys, value \in HeaderValues : Set(key, value)
  \/ \E key \in HeaderKeys : Del(key)

SpecHeader == InitHeader /\ [][NextHeader]_vars

\* A caller reads an archive file.
NextRaw ==
  \/ \E mode \in Modes : NewReaderMode(1, mode)
  \/ ReaderNext(1)

SpecRaw == InitRaw /\ [][NextRaw]_vars

\* An archive file from elsewhere, complete or cut off anywhere, handed to
\* NewReaderMode as it is, gzip-compressed or bzip2-compressed.
Compressions == {CompressionNone, CompressionBZIP, CompressionGZIP}
InitPacked ==
  /\ \E f \in RawFiles : file = f.bytes /\ nrecords = f.nrecords /\ ending = f.ending
  /\ \E compr \in Compressions : raw = Pack(compr, file)
  /\ fixture = << >>
  /\ written = << >>
  /\ InitReaders

SpecPacked == InitPacked /\ [][NextRaw]_vars

\* The lines of an archive file are read one after the other.
NextLines ==
  \/ \E mode \in Modes : NewReaderMode(1, mode)
  \/ readLineCall(1)

SpecLines == InitRaw /\ [][NextLines]_vars

\* Raw streams that begin like a compressed stream or nearly so: streams of
\* no, one, two and three bytes, and a one-record archive and an empty one
\* in the three formats.
SniffStreams ==
  { << >>, <<31>>, <<66>>, <<87>>, <<31, 139>>, <<66, 90>>, <<139, 31>>,
    <<90, 66>>, <<31, 90>>, <<66, 139>>, <<31, 139, 9>> }
  \cup { Pack(compr, data) : compr \in Compressions, data \in {<< >>, PieceOk1.bytes} }

\* A caller opens one of these streams; the file is what the source made
\* for the stream delivers.
InitSniff ==
  /\ raw \in SniffStreams
  /\ file = decompress(raw).data
  /\ nrecords = (IF file = PieceOk1.bytes THEN 1 ELSE 0)
  /\ ending = (IF file \in {<< >>, PieceOk1.bytes} THEN "boundary" ELSE "other")
  /\ fixture = << >>
  /\ written = << >>
  /\ InitReaders

SpecSniff == InitSniff /\ [][NextRaw]_vars

\* The last ReadRecord call of Reader r ended the caller's loop.
Done(r) == results[r] # << >> /\ results[r][Len(results[r])].out # "record"

\* A caller reads an archive file in SequentialMode to the end of its loop
\* and then once more in AsynchronousMode, as TestReader does.
NextModes ==
  \/ NewReaderMode(1, SequentialMode)
  \/ ~Done(1) /\ ReadRecord(1)
  \/ ~Done(1) /\ \E i \in 1..MaxCalls, n \in 1..MaxRead : ContentRead(1, i, n)
  \/ Done(1) /\ NewReaderMode(2, AsynchronousMode)
  \/ ~Done(2) /\ ReadRecord(2)
  \/ ~Done(2) /\ \E i \in 1..MaxCalls, n \in 1..MaxRead : ContentRead(2, i, n)

SpecModes == InitRaw /\ [][NextModes]_vars

\* A caller reads an archive file with a loop of ReadRecord calls that ends
\* with the first call that does not return a Record, as testFileScan
\* does, reading from the contents as it likes; the loop keeps calling.
NextLoop ==
  \/ \E mode \in Modes : NewReaderMode(1, mode)
  \/ ~Done(1) /\ ReadRecord(1)
  \/ ~Done(1) /\ \E i \in 1..MaxCalls, n \in 1..MaxRead : ContentRead(1, i, n)

SpecLoop == InitRaw /\ [][NextLoop]_vars /\ WF_vars(~Done(1) /\ ReadRecord(1))

\* ============================================================== properties
IsPrefix(a, b) == Len(a) <= Len(b) /\ a = Slice(b, 1, Len(a))

\* The i-th Record of Reader r is the one a caller may still read from: the
\* Reader's current record in SequentialMode, any record in AsynchronousMode.
Live(r, i) == recs[r][i].kind = "bytes" \/ reader[r].record = i

\* The Content of the i-th Record of Reader r has nothing more to deliver.
AtEnd(r, i) == Readable(recs[r][i], file, reader[r].cursor) = 0

\* What the first n ReadRecord calls of Reader r gave back for the first n
\* records written: each call (on the open Reader) a Record, holding every header field the
\* caller had set, and delivering the content that was written.
RoundTrip(r) ==
  \A i \in 1..Len(written) :
    /\ (i <= Len(results[r]) /\ results[r][i].out # "panic") =>
         results[r][i].out = "record"
    /\ i <= Len(recs[r]) =>
         /\ \A k \in DOMAIN fixture[i].Header :
              MapGet(recs[r][i].header, k) = fixture[i].Header[k]
         /\ IsPrefix(recs[r][i].got, fixture[i].Content)
         /\ (Live(r, i) /\ AtEnd(r, i) => recs[r][i].got = fixture[i].Content)

\* C1 as stated: any N records written with WriteRecord are read back by
\* the first N ReadRecord calls, in either mode, with every header field
\* the caller had set and with the content byte for byte.
C1_RoundTripAnyRecord == RoundTrip(1)

\* A header that survives the wire format: keys are not empty, hold no
\* upper-case letter, ':' or line break and are not content-length; values
\* hold no line break and no white space at either end; warc-date and
\* warc-type are not set to "".
PlainHeader(h) ==
  \A k \in DOMAIN h :
    /\ k # << >>
    /\ k # KeyContentLength
    /\ ToLower(k) = k
    /\ ~HasByte(k, {CR, LF, Colon})
    /\ ~HasByte(h[k], {CR, LF})
    /\ TrimSpace(h[k]) = h[k]
    /\ (k \in {KeyWarcDate, KeyWarcType} => h[k] # << >>)

\* C1: records with plain headers and any content, written with WriteRecord,
\* are read back by the first N ReadRecord calls, in either mode, with every
\* header field the caller had set and with the content byte for byte.
C1_RoundTrip ==
  (\A i \in 1..Len(written) : PlainHeader(fixture[i].Header)) => RoundTrip(1)

\* Two records were written and read back, the second with content that
\* holds CR, LF and a zero byte, and that content was read to its end.
C1_Witness ==
  /\ Len(written) = 2
  /\ Len(recs[1]) = 2
  /\ PlainHeader(fixture[1].Header) /\ PlainHeader(fixture[2].Header)
  /\ recs[1][2].got = Binary
  /\ reader[1].source = "open"

\* C2: on a file of N >= 0 well-formed records, in either mode and whatever
\* the caller reads of the contents, the calls of ReadRecord on the open
\* Reader return a Record the first N times and io.EOF the time after, and
\* no Record after that.
C2_RecordCount ==
  ending = "boundary" =>
    \A j \in 1..Len(results[1]) :
      results[1][j].out # "panic" =>
        /\ (j <= nrecords => results[1][j].out = "record")
        /\ (j = nrecords + 1 => results[1][j].out = "EOF")
        /\ (j > nrecords => results[1][j].out # "record")

\* A file of two records was read in SequentialMode to io.EOF on the third
\* call, the caller having read one of the three bytes of the first content.
C2_Witness ==
  /\ ending = "boundary" /\ nrecords = 2
  /\ reader[1].mode = SequentialMode
  /\ Len(results[1]) >= 3 /\ results[1][3].out = "EOF"
  /\ recs[1][1].length = 3 /\ Len(recs[1][1].got) = 1

\* What the Content of every Record has delivered lies in the record's
\* content block, and a Content that delivered Content-Length bytes is at
\* its end.
C3_Delivered ==
  \A i \in 1..Len(recs[1]) :
    /\ Len(recs[1][i].got) <= Max(recs[1][i].length, 0)
    /\ recs[1][i].got =
         Slice(file, recs[1][i].start + 1, recs[1][i].start + Len(recs[1][i].got))
    /\ (Len(recs[1][i].got) >= recs[1][i].length => AtEnd(1, i))

\* A read that delivers bytes from a limited reader leaves the position of
\* the source within the record's content block.
C3_Read ==
  \A i \in 1..Len(recs[1]) :
    (recs'[1][i].got # recs[1][i].got /\ recs[1][i].kind = "limit")
      => reader'[1].cursor <= recs[1][i].start + recs[1][i].length

\* C3: in both modes the Content of a Record never delivers a byte at or
\* after the end of the record's content block, delivers nothing more once
\* Content-Length bytes were delivered, and in SequentialMode never moves
\* the shared source past the end of the block.
C3_ContentBounded == []C3_Delivered /\ [][C3_Read]_vars

\* A content block of three bytes was delivered in full and bytes of the
\* next record follow it in the file.
C3_Witness ==
  \E i \in 1..Len(recs[1]) :
    /\ recs[1][i].length = 3
    /\ Len(recs[1][i].got) = 3
    /\ recs[1][i].start + 3 < Len(file)
    /\ recs[1][i].kind = "limit"

\* C4 as stated: for every input stream and in either mode, a Content read
\* to its end has delivered as many bytes as Content-Length says.
C4_LengthDelivered ==
  \A i \in 1..Len(recs[1]) :
    (Live(1, i) /\ AtEnd(1, i)) => Len(recs[1][i].got) = recs[1][i].length

\* A ReadRecord call of a SequentialMode Reader whose current record has its
\* content block in the file: the separator lines are looked for right
\* after the block, and the call leaves the Reader and its records as it
\* would had the caller read the whole content before.
C5_Step ==
  (/\ Len(results'[1]) = Len(results[1]) + 1
   /\ reader[1].source = "open"
   /\ reader[1].mode = SequentialMode
   /\ reader[1].record # 0
   /\ recs[1][reader[1].record].length >= 0
   /\ recs[1][reader[1].record].start + recs[1][reader[1].record].length <= Len(file))
  => LET cur == reader[1].record
         end == recs[1][cur].start + recs[1][cur].length
         full == ReadRecordOpen([reader[1] EXCEPT !.cursor = end],
                                [recs[1] EXCEPT ![cur].N = 0], file)
     IN  /\ results'[1][Len(results'[1])].drained = end
         /\ results'[1][Len(results'[1])] = full.result
         /\ reader'[1] = full.reader
         /\ recs'[1] = full.recs

\* C5: in SequentialMode, whatever number k of bytes the caller read from
\* the previous record's Content, the next ReadRecord call first consumes
\* the rest, so that the two separator lines are read from the byte after
\* the content block, and what it returns does not depend on k.
C5_AutoDrain == [][C5_Step]_vars

\* The second ReadRecord call of a SequentialMode Reader returned a Record
\* after the caller had read one of the three bytes of the first content.
C5_Witness ==
  /\ reader[1].mode = SequentialMode
  /\ Len(results[1]) >= 2
  /\ results[1][2].seek /\ results[1][2].out = "record"
  /\ recs[1][1].length = 3 /\ Len(recs[1][1].got) = 1

\* In AsynchronousMode the Content of every Record is a copy of the bytes
\* of its content block, and what it has delivered is the beginning of it.
C6_Copy ==
  (reader[1].constructed /\ reader[1].mode = AsynchronousMode) =>
    \A i \in 1..Len(recs[1]) :
      /\ recs[1][i].kind = "bytes"
      /\ recs[1][i].got = Slice(recs[1][i].data, 1, recs[1][i].off)
      /\ recs[1][i].data =
           Slice(file, recs[1][i].start + 1, recs[1][i].start + Len(recs[1][i].data))

\* In AsynchronousMode no step changes the copy of a Record, and a step
\* that reads from a Record leaves the Reader alone, as a step of the
\* Reader leaves the Records it returned alone.
C6_Frame ==
  (reader[1].constructed /\ reader[1].mode = AsynchronousMode) =>
    \A i \in 1..Len(recs[1]) :
      /\ recs'[1][i].data = recs[1][i].data
      /\ (recs'[1][i] # recs[1][i] => (reader' = reader /\ results' = results))

\* C6: in AsynchronousMode a Record that ReadRecord returned is not affected
\* by later ReadRecord calls or Close: its Content delivers the bytes of its
\* content block whenever it is read, and reading it never moves the
\* Reader's source.
C6_AsyncIndependent == []C6_Copy /\ [][C6_Frame]_vars

\* The first of two Records of a closed AsynchronousMode Reader delivered
\* its three bytes, the second Record nothing yet.
C6_Witness ==
  /\ reader[1].mode = AsynchronousMode
  /\ reader[1].source = "nil" /\ reader[1].closes = 1
  /\ Len(recs[1]) = 2
  /\ Len(recs[1][1].data) = 3 /\ recs[1][1].got = recs[1][1].data
  /\ recs[1][2].got = << >>

\* The caller read the whole Content of the i-th Record of Reader r.
Complete(r, i) == Len(recs[r][i].got) = recs[r][i].length

\* C7: on a well-formed file a SequentialMode Reader and an AsynchronousMode
\* Reader return the same number of records, the i-th records have the same
\* header and, when both contents were read to completion, the same bytes.
C7_ModeEquivalence ==
  ending = "boundary" =>
    /\ (Done(1) /\ Done(2)) => Len(recs[1]) = Len(recs[2])
    /\ \A i \in 1..Min(Len(recs[1]), Len(recs[2])) :
         /\ recs[1][i].header = recs[2][i].header
         /\ (Complete(1, i) /\ Complete(2, i)) => recs[1][i].got = recs[2][i].got

\* Both Readers read a file of two records to the end and the caller read
\* every content to completion.
C7_Witness ==
  /\ ending = "boundary" /\ nrecords = 2
  /\ Done(1) /\ Done(2)
  /\ Len(recs[1]) = 2 /\ Len(recs[2]) = 2
  /\ \A r \in Readers, i \in 1..2 : Complete(r, i) /\ recs[r][i].got # << >>

\* C8 as stated: when the file ends inside the header block, the content
\* block or the separator lines of a record, no ReadRecord call returns the
\* clean io.EOF and no Record is returned for the truncated record.
C8_TruncationIsError ==
  ending \in {"header", "content", "separator"} =>
    /\ \A j \in 1..Len(results[1]) : results[1][j].out # "EOF"
    /\ Len(recs[1]) <= nrecords + (IF ending = "separator" THEN 1 ELSE 0)

\* C9 as stated: a ReadRecord call whose seek step finds a non-empty line
\* where one of the two separator lines should be does not return a Record.
C9_FramingError ==
  \A j \in 1..Len(results[1]) :
    results[1][j].seekErr = "framing" => results[1][j].out # "record"

\* C10 as stated: every Record that ReadRecord returns has a content-length
\* field whose value is a non-negative decimal integer.
C10_LengthNonNegative ==
  \A i \in 1..Len(recs[1]) :
    /\ KeyContentLength \in DOMAIN recs[1][i].header
    /\ recs[1][i].length >= 0

\* C11 as stated: once a ReadRecord call of a Reader has returned an error
\* other than the clean io.EOF, no later ReadRecord call of that Reader
\* returns a Record.
C11_NoResync ==
  \A j, k \in 1..Len(results[1]) :
    (j < k /\ results[1][j].out = "parse") => results[1][k].out # "record"

\* The Close of a Reader's source was called at most once, and it was
\* called by the first Close call, which left the Reader without a source.
C12_Once ==
  \A r \in Readers :
    /\ reader[r].closes <= 1
    /\ (reader[r].closeCalls >= 1 => reader[r].closes = 1 /\ reader[r].source = "nil")

\* A Close call that is not the first one changes nothing: not a field of
\* the Reader, not a Record, not the stream.
C12_Later ==
  \A r \in Readers :
    (reader[r].closeCalls >= 1 /\ reader'[r].closeCalls = reader[r].closeCalls + 1)
      => /\ reader'[r] = [reader[r] EXCEPT !.closeCalls = @ + 1]
         /\ UNCHANGED <<file, raw, recs, results>>

\* C12: over any sequence of Close calls on one Reader, the Close of the
\* decompressing source is invoked at most once, by the first call, and the
\* second and later Close calls change nothing.
C12_CloseIdempotent == []C12_Once /\ [][C12_Later]_vars

\* A Reader of a gzip stream with a current record was closed twice.
C12_Witness ==
  /\ reader[1].compression = CompressionGZIP
  /\ reader[1].closeCalls = 2 /\ reader[1].closes = 1
  /\ Len(recs[1]) >= 1
  /\ results[1][Len(results[1])].out = "record"

\* C13 as stated: after one or more Close calls on a Reader the raw stream
\* handed to NewReaderMode has been closed exactly once, whatever the
\* compression type.
C13_RawClosedOnce ==
  \A r \in Readers : reader[r].closeCalls >= 1 => reader[r].rawCloses = 1

\* A ReadRecord call on a Reader that was closed fails (it panics), returns
\* no Record and leaves the Reader, its position in the stream and the
\* Records it returned before as they are.
C14_Step ==
  (Len(results'[1]) = Len(results[1]) + 1 /\ reader[1].closeCalls >= 1)
    => /\ results'[1][Len(results'[1])].out = "panic"
       /\ recs'[1] = recs[1]
       /\ reader'[1] = reader[1]

\* C14: after Close every ReadRecord call on the Reader fails: it returns no
\* Record and reads no byte from the stream.
C14_ClosedReadFails == [][C14_Step]_vars

\* A SequentialMode Reader returned a Record, was closed with a byte of the
\* content delivered and more of the stream to come, and ReadRecord was
\* called on it after that.
C14_Witness ==
  /\ reader[1].mode = SequentialMode
  /\ reader[1].closeCalls >= 1
  /\ reader[1].cursor < Len(file)
  /\ Len(results[1]) = 2
  /\ results[1][1].out = "record" /\ results[1][2].out = "panic"
  /\ Len(recs[1][1].got) = 1

\* ------------------------------------------------------------------ writer
\* The step is a WriteRecord call; Wrote is the record it was called with,
\* After what it added to written, Appended the bytes it added to the file.
IsWrite == Len(written') = Len(written) + 1
Wrote == fixture[Len(written) + 1]
After == written'[Len(written) + 1]
Appended == Slice(file', Len(file) + 1, Len(file'))

\* A successful WriteRecord call adds the bytes of one record in the layout
\* of Encode to the end of the file, with the fields of the record's header
\* in some order.
C15_Step ==
  (IsWrite /\ After.err = "nil")
    => \E order \in Orders(After.Header) :
         file' = file \o Encode(After.Header, order, Wrote.Content)

\* C15: a successful WriteRecord appends the version line, one line
\* "Key: Value" for each field of the record's header, each once and in any
\* order, an empty line, the content bytes unchanged and two line breaks;
\* successive calls append their records with nothing in between.
C15_Layout == [][C15_Step]_vars

\* Two records were written, the second with content that holds CR, LF and
\* a zero byte.
C15_Witness ==
  /\ Len(written) = 2
  /\ written[1].err = "nil" /\ written[2].err = "nil"
  /\ fixture[2].Content = Binary

\* A Reader that was just made, in AsynchronousMode.
FreshReader ==
  [NoReader EXCEPT !.constructed = TRUE, !.mode = AsynchronousMode, !.source = "open"]

\* WriteRecord, having read the Content to its end, leaves the decimal
\* number of content bytes in content-length,
\* and reading back the bytes of a successful call (of a record whose
\* header lines can be taken apart again) gives that Content-Length and as
\* many content bytes before the two closing line breaks.
C16_Step ==
  (IsWrite /\ After.err # "content")
    => /\ MapGet(After.Header, KeyContentLength) = Itoa(Len(Wrote.Content))
       /\ (After.err = "nil" /\ WellFormedHeader(Wrote.Header))
            => /\ ReadRecordOpen(FreshReader, << >>, Appended).result.out = "record"
               /\ ReadRecordOpen(FreshReader, << >>, Appended).recs[1].length
                    = Len(Wrote.Content)
               /\ ReadRecordOpen(FreshReader, << >>, Appended).recs[1].data
                    = Wrote.Content
               /\ ReadRecordOpen(FreshReader, << >>, Appended).reader.cursor
                    = Len(Appended) - Len(CRLF \o CRLF)

\* C16: WriteRecord sets content-length to the decimal count of the content
\* bytes, replacing a value of the caller's, so that the Content-Length
\* emitted equals the number of content bytes emitted.
C16_ContentLength == [][C16_Step]_vars

\* A record with a content-length of "9" and one content byte was written.
C16_Witness ==
  /\ Len(written) = 1 /\ written[1].err = "nil"
  /\ MapGet(fixture[1].Header, KeyContentLength) = <<57>>
  /\ Len(fixture[1].Content) = 1
  /\ MapGet(written[1].Header, KeyContentLength) = <<49>>

\* sub occurs in str.
Occurs(sub, str) ==
  \E i \in 0..(Len(str) - Len(sub)) : Slice(str, i + 1, i + Len(sub)) = sub

\* What WriteRecord, having read the Content, does to the header when the
\* fields for which kept(k)
\* holds are the caller's to keep: these are left as they are and, when the
\* call succeeds, emitted with their value; warc-date and warc-type are set
\* to the time and to "resource" when they are not kept; no other field but
\* content-length is added.
HeaderKept(kept(_)) ==
  /\ \A k \in DOMAIN Wrote.Header :
       (k # KeyContentLength /\ kept(k))
         => /\ MapGet(After.Header, k) = Wrote.Header[k]
            /\ After.err = "nil"
                 => Occurs(Line(Title(k) \o <<Colon, Space>> \o Wrote.Header[k]), Appended)
  /\ ~kept(KeyWarcDate) => MapGet(After.Header, KeyWarcDate) = Wrote.now
  /\ ~kept(KeyWarcType) => MapGet(After.Header, KeyWarcType) = ValResource
  /\ DOMAIN After.Header =
       DOMAIN Wrote.Header \cup {KeyContentLength, KeyWarcDate, KeyWarcType}

\* The caller set the field k.
Present(k) == k \in DOMAIN Wrote.Header
\* The caller set the field k, and not to "" if it is warc-date or warc-type.
PresentNotEmpty(k) ==
  /\ k \in DOMAIN Wrote.Header
  /\ (k \in {KeyWarcDate, KeyWarcType} => Wrote.Header[k] # << >>)

C17_StepAbsent == (IsWrite /\ After.err # "content") => HeaderKept(Present)
C17_StepEmpty == (IsWrite /\ After.err # "content") => HeaderKept(PresentNotEmpty)

\* C17 as stated: WriteRecord fills in warc-date and warc-type only when
\* the field is absent from the header; a value of the caller's for them
\* and every other field except content-length is left unchanged and
\* emitted as supplied.
C17_DefaultsWhenAbsent == [][C17_StepAbsent]_vars

\* C17: WriteRecord fills in warc-date and warc-type when the field is
\* absent from the header or set to ""; any other value of the caller's for
\* them and every other field except content-length is left unchanged and
\* emitted as supplied.
C17_DefaultsWhenEmpty == [][C17_StepEmpty]_vars

\* A record was written whose warc-date the caller had set to "d" and whose
\* warc-type the caller had set to "": the first was kept, the second set.
C17_Witness ==
  /\ Len(written) = 1 /\ written[1].err = "nil"
  /\ KeyWarcType \in DOMAIN fixture[1].Header
  /\ fixture[1].Header[KeyWarcType] = << >>
  /\ written[1].Header[KeyWarcType] = ValResource
  /\ fixture[1].Header[KeyWarcDate] = <<100>>
  /\ written[1].Header[KeyWarcDate] = <<100>>

\* The length of a record: the version line, the lines of the fields keys
\* of the header h, the empty line, n content bytes and two line breaks.
RECURSIVE LinesLen(_, _)
LinesLen(h, keys) ==
  IF keys = {} THEN 0
  ELSE LET k == CHOOSE x \in keys : TRUE
       IN  Len(k) + 2 + Len(h[k]) + 2 + LinesLen(h, keys \ {k})
RecordLen(h, n) == Len(VersionLine) + 2 + LinesLen(h, DOMAIN h) + 2 + n + 4

\* The int that WriteRecord returns is the number of bytes the call added
\* to the target; without an error that is a whole record, with an error
\* it is less.
C18_Step ==
  IsWrite
    => /\ After.total = Len(file') - Len(file)
       /\ IF After.err = "nil"
            THEN After.total = RecordLen(After.Header, Len(Wrote.Content))
            ELSE After.total < RecordLen(After.Header, Len(Wrote.Content))

\* C18: WriteRecord returns the number of bytes this call wrote to the
\* target, framing included: the length of the whole record on success, the
\* number of bytes written before the failure together with the error
\* otherwise.
C18_Total == [][C18_Step]_vars

\* The second WriteRecord call failed in the middle of a header line.
C18_Witness ==
  /\ Len(written) = 2
  /\ written[1].err = "nil"
  /\ written[2].err = "write"
  /\ written[2].total = Len(VersionLine \o CRLF) + 3

\* ------------------------------------------------------------------ header
\* What the calls log[1..i] leave for the key k: the value of the last Set
\* with that key in any case, "" when a Del with that key came after it or
\* there was none.
RECURSIVE Latest(_, _, _)
Latest(log, i, k) ==
  IF i = 0 THEN << >>
  ELSE IF ToLower(log[i].key) = ToLower(k)
    THEN (IF log[i].op = "Set" THEN log[i].value ELSE << >>)
  ELSE Latest(log, i - 1, k)

\* C19: after any sequence of Set and Del calls on a new Header, Get(k) is
\* the value of the most recent Set with a key equal to k but for case that
\* no Del with such a key followed, and "" if there is none; the Header
\* never holds two keys that differ only in case.
C19_CaseInsensitive ==
  /\ \A k \in HeaderKeys : HeaderGet(hdr.h, k) = Latest(hdr.log, Len(hdr.log), k)
  /\ \A a, b \in DOMAIN hdr.h : ToLower(a) = ToLower(b) => a = b

\* Set("k", "1"), Set("K", "2") and Del("q") were called, and Get("k") is "2".
C19_Witness ==
  /\ Len(hdr.log) = 3
  /\ hdr.log[1] = [op |-> "Set", key |-> <<107>>, value |-> <<49>>]
  /\ hdr.log[2] = [op |-> "Set", key |-> <<75>>, value |-> <<50>>]
  /\ hdr.log[3].op = "Del" /\ hdr.log[3].key = <<113>>
  /\ HeaderGet(hdr.h, <<107>>) = <<50>>

\* The lines of str[from+1..to], which ends with a line feed: each line
\* runs up to a line feed, and a carriage return before it is not part of
\* the line.
RECURSIVE BlockLines(_, _, _)
BlockLines(str, from, to) ==
  IF from >= to THEN << >>
  ELSE LET p == CHOOSE q \in (from + 1)..to :
                  str[q] = LF /\ \A q2 \in (from + 1)..(q - 1) : str[q2] # LF
           e == IF p - 1 > from /\ str[p - 1] = CR THEN p - 2 ELSE p - 1
       IN  <<Slice(str, from + 1, e)>> \o BlockLines(str, p, to)

\* The map that the lines[i..] make of the map h: a line is split at its
\* first ':' into a key, which is lower-cased, and a value, which is
\* trimmed; a line without ':' is skipped, and so is a line that begins
\* with ':' when skipEmptyKey says so.
RECURSIVE FoldLines(_, _, _, _)
FoldLines(lines, i, h, skipEmptyKey) ==
  IF i > Len(lines) THEN h
  ELSE LET c == FirstColon(lines[i])
       IN  IF c = 0 \/ (c = 1 /\ skipEmptyKey)
             THEN FoldLines(lines, i + 1, h, skipEmptyKey)
             ELSE FoldLines(lines, i + 1,
                            MapPut(h, ToLower(Slice(lines[i], 1, c - 1)),
                                   TrimSpace(Slice(lines[i], c + 1, Len(lines[i])))),
                            skipEmptyKey)

\* The header of every Record of Reader 1 is the map made of the lines
\* between its version line and the first empty line after it.
HeaderParsed(skipEmptyKey) ==
  \A i \in 1..Len(recs[1]) :
    LET lines == BlockLines(file, recs[1][i].begin, recs[1][i].start)
    IN  /\ Len(lines) >= 2
        /\ lines[Len(lines)] = << >>
        /\ \A j \in 2..(Len(lines) - 1) : lines[j] # << >>
        /\ recs[1][i].header =
             FoldLines(SubSeq(lines, 2, Len(lines) - 1), 1, NewHeader, skipEmptyKey)

\* C20 as stated: the header of a Record is the map obtained from the lines
\* between the version line and the first empty line, in order: each line
\* is split at its first ':' into a lower-cased key and a trimmed value, a
\* later line overwrites an earlier one with the same key, and a line
\* without ':' is skipped.
C20_HeaderParse == HeaderParsed(FALSE)

\* C20: as above, where a line that begins with ':' is skipped as well.
C20_HeaderParseKeyed == HeaderParsed(TRUE)

\* A Record was returned for a header block with the lines ": x", "K: 1",
\* "k:2" and "foo": its header holds "2" for "k" and nothing for "".
C20_Witness ==
  /\ Len(recs[1]) = 1
  /\ Len(BlockLines(file, recs[1][1].begin, recs[1][1].start)) = 7
  /\ MapGet(recs[1][1].header, <<107>>) = <<50>>
  /\ << >> \notin DOMAIN recs[1][1].header
  /\ recs[1][1].length = 0

\* ------------------------------------------------------------- compression
\* The compression type compr is the one that the first two bytes of the
\* stream b stand for.
MagicOf(b, compr) ==
  /\ compr \in Compressions
  /\ compr = CompressionGZIP <=> (Len(b) >= 2 /\ b[1] = 31 /\ b[2] = 139)
  /\ compr = CompressionBZIP <=> (Len(b) >= 2 /\ b[1] = 66 /\ b[2] = 90)

\* C21: a stream is classified GZIP iff its first two bytes are 1f 8b, BZIP2
\* iff they are 42 5a and None otherwise, a stream of fewer than two bytes
\* being classified None without an error; Reader.Compression() returns the
\* classification made at open time after any ReadRecord and Close calls.
C21_Sniff ==
  /\ MagicOf(raw, guessCompression(raw))
  /\ Len(raw) < 2 => ~decompress(raw).err
  /\ \A r \in Readers : reader[r].constructed => MagicOf(raw, reader[r].compression)

\* A Reader of a bzip2 stream returned a Record and was closed.
C21_Witness ==
  /\ reader[1].compression = CompressionBZIP
  /\ reader[1].closeCalls >= 1
  /\ Len(results[1]) >= 1 /\ results[1][1].out = "record"

\* ------------------------------------------------------------------- lines
\* The stream has a line feed after the position from.
Terminated(str, from) == \E q \in (from + 1)..Len(str) : str[q] = LF

\* C22: a line that the buffered reader delivers in several chunks comes
\* back from readLine as one line, the chunks joined in order: whatever its
\* length, a line that ends with a line feed is returned whole, without the
\* line feed and a carriage return before it, and the next line is read
\* from the byte after the line feed.
C22_LongLines ==
  \A j \in 1..Len(results[1]) :
    Terminated(file, results[1][j].from)
      => /\ results[1][j].out = "nil"
         /\ <<results[1][j].line>>
              = BlockLines(file, results[1][j].from, results[1][j].next)
         /\ file[results[1][j].next] = LF
         /\ (j < Len(results[1]) => results[1][j + 1].from = results[1][j].next)

\* The line "Content-Length: 3", more than two buffers long, was read, and
\* the line after it.
C22_Witness ==
  /\ Len(results[1]) >= 3
  /\ results[1][2].line = Title(KeyContentLength) \o <<Colon, Space, 51>>
  /\ Len(results[1][2].line) > 2 * BufSize
  /\ results[1][3].out = "nil" /\ results[1][3].line = << >>

\* ----------------------------------------------------------- stale handles
\* A later ReadRecord call began its seek step with the i-th Record of
\* Reader 1 as the current record.
Stale(i) ==
  \E j \in 1..Len(results[1]) : results[1][j].seek /\ results[1][j].prev = i

\* A stale handle of a SequentialMode Reader has nothing to deliver.
C23_AtEnd ==
  (reader[1].constructed /\ reader[1].mode = SequentialMode) =>
    \A i \in 1..Len(recs[1]) : Stale(i) => AtEnd(1, i)

\* No step delivers a byte from a stale handle of a SequentialMode Reader.
C23_NoRead ==
  (reader[1].constructed /\ reader[1].mode = SequentialMode) =>
    \A i \in 1..Len(recs[1]) : Stale(i) => recs'[1][i].got = recs[1][i].got

\* C23: in SequentialMode, once the next ReadRecord call has begun its seek
\* step, every read from the Content of the Record before yields no bytes
\* and does not move the source, so that it cannot take bytes of the
\* separator, the header or the content of a later record.
C23_StaleHarmless == []C23_AtEnd /\ [][C23_NoRead]_vars

\* The first Record of a SequentialMode Reader, of whose three content
\* bytes the caller had read one, is stale, and the Reader's current record
\* has content to deliver.
C23_Witness ==
  /\ reader[1].mode = SequentialMode
  /\ Len(recs[1]) = 2 /\ Stale(1)
  /\ recs[1][1].length = 3 /\ Len(recs[1][1].got) = 1
  /\ reader[1].record = 2 /\ ~AtEnd(1, 2)

\* ------------------------------------------------------------ end of stream
\* C24: once a ReadRecord call has returned io.EOF, every later ReadRecord
\* call on the open Reader returns io.EOF as well, and never a Record.
C24_StickyEOF ==
  \A j, k \in 1..Len(results[1]) :
    (j < k /\ results[1][j].out = "EOF" /\ results[1][k].out # "panic")
      => results[1][k].out = "EOF"

\* A Reader returned a Record and then io.EOF twice, and is open.
C24_Witness ==
  /\ reader[1].source = "open"
  /\ Len(results[1]) = 3
  /\ results[1][1].out = "record"
  /\ results[1][2].out = "EOF" /\ results[1][3].out = "EOF"

\* -------------------------------------------------------------- termination
\* A ReadRecord call leaves the source within the stream and not before
\* where it was, and a call that returns a Record has consumed a byte.
C25_Progress ==
  Len(results'[1]) = Len(results[1]) + 1
    => /\ reader'[1].cursor >= reader[1].cursor
       /\ reader'[1].cursor <= Len(file)
       /\ (results'[1][Len(results'[1])].out = "record"
             => reader'[1].cursor > reader[1].cursor)

\* C25: on a finite stream every ReadRecord call comes to an end, a call
\* that returns a Record consumes at least one byte of the stream, and the
\* caller's loop of ReadRecord calls eventually gets an error or io.EOF.
C25_Termination ==
  /\ [][C25_Progress]_vars
  /\ (reader[1].constructed ~> Done(1))

\* The loop of a SequentialMode Reader ended with io.EOF after two Records,
\* the caller having read two of the three bytes of the first content.
C25_Witness ==
  /\ reader[1].mode = SequentialMode
  /\ Done(1) /\ Len(recs[1]) = 2
  /\ results[1][Len(results[1])].out = "EOF"
  /\ recs[1][1].length = 3 /\ Len(recs[1][1].got) = 2

\* A WriteRecord call whose Content returned an error gives back 0 and that
\* error, adds no byte to the target and leaves the header of the record
\* as the caller made it.
C26_Step ==
  (IsWrite /\ After.err = "content")
    => /\ After.total = 0
       /\ file' = file
       /\ After.Header = Wrote.Header

\* C26: when reading the record's Content fails, WriteRecord returns 0 and
\* the error, writes nothing to the target and does not touch the header:
\* no content-length, warc-date or warc-type is added or changed.
C26_AllOrNothing == [][C26_Step]_vars

\* The Content of the second record failed after the first record had been
\* written: the file holds the first record only, and the header of the
\* second still lacks content-length and has the caller's warc-type.
C26_Witness ==
  /\ Len(written) = 2
  /\ written[1].err = "nil" /\ written[2].err = "content"
  /\ written[2].total = 0
  /\ file # << >>
  /\ KeyContentLength \notin DOMAIN written[2].Header
  /\ written[2].Header = fixture[2].Header

====
